---- MODULE Spec2Model ----
(***************************************************************************)
(* rf (rflib.py): discovery of the dependency graph encoded in a directory *)
(* tree, synthesis of the makefile, and the hand-off to make.              *)
(*                                                                         *)
(* A path string such as '/r/a/__' is the sequence of its names            *)
(* <<"r","a","__">>; node + '/__' and os.path.join(node, x) are Append.    *)
(* The filesystem is a set of entries, one per canonical path.             *)
(***************************************************************************)
EXTENDS Integers, Sequences, FiniteSets, TLC

VARIABLES
    fs,               \* the filesystem: set of [path, kind, target]
    pc,               \* "idle" | "running" | "make" | "exited"
    root,             \* find_dependencies' argument node (realpath'd by run)
    recursive,        \* find_dependencies' argument recursive
    queue,            \* find_dependencies' queue of [parent, child]
    stream,           \* pairs handed to makefile from a list, not yet read
    makefile_string,  \* makefile's accumulated rules, in emission order
    dependency_set,   \* makefile's dependency_set
    child_set,        \* makefile's child_set
    trivial_done,     \* nodes of the trailing loop already handled
    script,           \* the script handed to make: [all, rules]
    pairs,            \* history: the pairs yielded in this run, with the parent
    popped,           \* history: the paths popped from the queue in this run
    made,             \* history: nodes whose results directory make created
    snap,             \* history: the filesystem when this run started
    makeExit,         \* exit code of the make process of this run
    exitCode          \* exit code of the rf process of this run

vars == <<fs, pc, root, recursive, queue, stream, makefile_string, dependency_set,
          child_set, trivial_done, script, pairs, popped, made, snap,
          makeExit, exitCode>>

-----------------------------------------------------------------------------
(* Bounds of the model *)

\* dependency links in the tree
MaxLinks == 1
\* pairs in a list handed to makefile
MaxPairs == 2
\* dependencies of a pair in such a list
MaxDeps == 1
\* recipes make runs in one behaviour
MaxExec == 1
\* symbolic links one path resolution may cross before the kernel answers
\* ELOOP (40 on Linux); os.path.isdir and os.path.exists then answer False
MaxSymlinks == 3

-----------------------------------------------------------------------------
(* The directories of the trees *)

R == <<"r">>
A == <<"r", "a">>
B == <<"r", "b">>
C == <<"r", "a", "c">>
O == <<"o">>
F == <<"f">>

Nodes == {R, A, B, C, O}

Dir(p) == [path |-> p, kind |-> "dir", target |-> <<>>]
File(p) == [path |-> p, kind |-> "file", target |-> <<>>]
XFile(p) == [path |-> p, kind |-> "xfile", target |-> <<>>]
Link(p, t) == [path |-> p, kind |-> "link", target |-> t]

\* a node directory in one of its states
NodeEntries(n, s) ==
    {Dir(n)}
    \cup (IF s = "none" THEN {} ELSE {Dir(n \o <<"__">>)})
    \cup (IF s \in {"ready", "done"} THEN {XFile(n \o <<"__", "driver">>)} ELSE {})
    \cup (IF s = "nodriver" THEN {File(n \o <<"__", "driver">>)} ELSE {})
    \cup (IF s = "done" THEN {Dir(n \o <<"_">>), File(n \o <<"_", "nohup.out">>)}
          ELSE {})

LinkName(t) == "to_" \o t[Len(t)]

\* a dependency link o/__/dep/to_t -> t
DepEntries(o, t) ==
    {Dir(o \o <<"__", "dep">>), Link(o \o <<"__", "dep", LinkName(t)>>, t)}

\* subdirectory entries that are symbolic links to directories
SymEntries(opt) ==
    CASE opt = "in" -> {Link(B \o <<"s">>, A)}
      [] opt = "out" -> {Link(R \o <<"s">>, O)}
      [] opt = "outin" -> {Link(R \o <<"s">>, O), Link(O \o <<"t">>, A)}
      [] opt = "loop" -> {Link(C \o <<"l">>, A)}
      [] OTHER -> {}

StatusOf(n) ==
    CASE n = R -> {"ready", "none", "done"}
      [] n = A -> {"ready", "done", "nodriver"}
      [] n = B -> {"ready", "none"}
      [] n = C -> {"ready", "done"}
      [] OTHER -> {"ready"}

LinkOwners == {R, A}
LinkTargets == {R, A, B, O, F}

Tree(st, links, opt) ==
    {Dir(<<>>), File(F)}
    \cup UNION {NodeEntries(n, st[n]) : n \in Nodes}
    \cup UNION {DepEntries(l[1], l[2]) : l \in links}
    \cup SymEntries(opt)

\* the states of the nodes in the trees with a link to an ancestor
LoopStatusOf(n) ==
    CASE n = R -> {"ready", "none"}
      [] n = B -> {"none"}
      [] n = C -> {"ready", "done"}
      [] OTHER -> {"ready"}

\* the states of the nodes in the trees of the runs that follow a make
RerunStatusOf(n) ==
    CASE n = R -> {"ready", "none", "done"}
      [] n = A -> {"ready", "done", "nodriver"}
      [] OTHER -> {"ready"}

Trees(opts, status) ==
    {Tree(st, links, opt) :
        st \in {f \in [Nodes -> {"ready", "none", "done", "nodriver"}] :
                   \A n \in Nodes : f[n] \in status[n]},
        links \in {L \in SUBSET (LinkOwners \X LinkTargets) :
                      Cardinality(L) <= MaxLinks},
        opt \in opts}

-----------------------------------------------------------------------------
(* The os and os.path calls rflib.py makes *)

Has(p) == \E e \in fs : e.path = p
Ent(p) == CHOOSE e \in fs : e.path = p

\* Path resolution from the directory cur over the names rest.  A link in
\* the middle is always followed, the last one only with followLast.  n is
\* the number of links that may still be crossed (negative: no limit).
\* (x holds the values of one step, computed once.)
RECURSIVE Walk(_, _, _, _)
Walk(cur, rest, followLast, n) ==
    IF rest = <<>> THEN [ok |-> TRUE, path |-> cur]
    ELSE CHOOSE r \in
        {IF ~Has(x.nxt) THEN [ok |-> FALSE, path |-> x.left]
         ELSE CASE x.kind = "link" /\ (x.tl # <<>> \/ x.follow) ->
                       IF x.n = 0 THEN [ok |-> FALSE, path |-> x.left]
                       ELSE Walk(<<>>, Ent(x.nxt).target \o x.tl, x.follow, x.n - 1)
                [] x.kind = "dir" -> Walk(x.nxt, x.tl, x.follow, x.n)
                [] OTHER ->
                       IF x.tl = <<>> THEN [ok |-> TRUE, path |-> x.nxt]
                       ELSE [ok |-> FALSE, path |-> x.left] :
         x \in {[nxt |-> Append(cur, Head(rest)),
                 tl |-> Tail(rest),
                 left |-> cur \o rest,
                 kind |-> IF Has(Append(cur, Head(rest)))
                          THEN Ent(Append(cur, Head(rest))).kind ELSE "",
                 follow |-> followLast,
                 n |-> n]}} : TRUE

\* (Below, \E v \in {e} : ... names the value of e, computed once.)

\* stat(2) and lstat(2)
Stat(p) == CHOOSE r \in {Walk(<<>>, q, TRUE, MaxSymlinks) : q \in {p}} : TRUE
LStat(p) == CHOOSE r \in {Walk(<<>>, q, FALSE, MaxSymlinks) : q \in {p}} : TRUE

\* os.path.realpath: resolves every link, with no limit on their number
realpath(p) == CHOOSE r \in {Walk(<<>>, q, TRUE, -1).path : q \in {p}} : TRUE

isdir(p) == \E s \in {Stat(p)} : s.ok /\ Ent(s.path).kind = "dir"
exists(p) == Stat(p).ok
islink(p) == \E s \in {LStat(p)} : s.ok /\ Ent(s.path).kind = "link"
\* os.access(p, os.X_OK): executable file, or searchable directory
access_x(p) == \E s \in {Stat(p)} : s.ok /\ Ent(s.path).kind \in {"xfile", "dir"}
\* os.listdir of a directory
listdir(p) ==
    UNION {{e.path[Len(e.path)] : e \in {x \in fs : /\ Len(x.path) = Len(d) + 1
                                                   /\ SubSeq(x.path, 1, Len(d)) = d}} :
           d \in {Stat(p).path}}

\* the orders in which a directory listing may come
Orders(S) ==
    {s \in [1..Cardinality(S) -> S] : \A i, j \in 1..Cardinality(S) :
                                          i # j => s[i] # s[j]}

-----------------------------------------------------------------------------
(* rflib.py *)

\* is_ready_to_run without the test of the results directory
is_ready_ignoring_results(node) ==
    \E n \in {node} :
        /\ isdir(n \o <<"__">>)
        /\ access_x(n \o <<"__", "driver">>)

is_ready_to_run(node) ==
    \E n \in {node} :
        /\ isdir(n \o <<"__">>)
        /\ ~exists(n \o <<"_">>)
        /\ access_x(n \o <<"__", "driver">>)

\* the names in node/__/dep that dependency_links yields the targets of
dep_names(node) ==
    UNION {IF isdir(depdir)
           THEN {x \in listdir(depdir) : /\ islink(Append(depdir, x))
                                         /\ isdir(Append(depdir, x))}
           ELSE {} :
           depdir \in {node \o <<"__", "dep">>}}

\* the lists dependency_links(node) may yield, one per listing order
dependency_links(node) ==
    UNION {{[i \in 1..Len(s) |-> realpath(Append(n \o <<"__", "dep">>, s[i]))] :
               s \in Orders(dep_names(n))} :
           n \in {node}}

\* the text of a path, '/' before every name ('/' alone for the top)
RECURSIVE Str(_)
Str(p) ==
    IF p = <<>> THEN <<"/">>
    ELSE IF Len(p) = 1 THEN <<"/", p[1]>>
    ELSE Str(SubSeq(p, 1, Len(p) - 1)) \o <<"/", p[Len(p)]>>

startswith(s, prefix) ==
    Len(prefix) <= Len(s) /\ SubSeq(s, 1, Len(prefix)) = prefix

\* belongs_to_tree comparing the path as given, not its realpath
belongs_to_tree_unresolved(dirname, basedir) ==
    startswith(Str(dirname) \o <<"/">>, Str(realpath(basedir)) \o <<"/">>)

belongs_to_tree(dirname, basedir) ==
    startswith(Str(realpath(dirname)) \o <<"/">>, Str(realpath(basedir)) \o <<"/">>)

\* the list comprehension without the parent
dependencies_links_only(parent, l, node) ==
    SelectSeq(l, LAMBDA x : is_ready_to_run(realpath(x)) /\ belongs_to_tree(x, node))

\* the list comprehension of find_dependencies; parent is <<>> for None
dependencies(parent, l, node) ==
    SelectSeq(parent \o l,
              LAMBDA x : is_ready_to_run(realpath(x)) /\ belongs_to_tree(x, node))

\* the test before the yield of find_dependencies
is_yielded(child, node) ==
    is_ready_to_run(realpath(child)) /\ belongs_to_tree(child, node)

\* the subdirectories without the filter on '_' and '__'
subdirs_unfiltered(child) ==
    {x \in listdir(child) : isdir(Append(child, x))}

\* the names find_dependencies extends the queue with
subdirs(child) ==
    {x \in listdir(child) \ {"_", "__"} : isdir(Append(child, x))}

nohup_out(node) == node \o <<"_", "nohup.out">>

\* the entries find_dependencies extends the queue with (ch: the
\* subdirectories in listing order, l: the dependency links), with the
\* links fed to the queue as well
queue_extension_with_links(child, ch, l) ==
    [i \in 1..(Len(ch) + Len(l)) |->
        [parent |-> <<child>>,
         child |-> IF i <= Len(ch) THEN Append(child, ch[i]) ELSE l[i - Len(ch)]]]

\* the entries find_dependencies extends the queue with (ch: the
\* subdirectories in listing order, l: the dependency links)
queue_extension(child, ch, l) ==
    [i \in 1..Len(ch) |-> [parent |-> <<child>>, child |-> Append(child, ch[i])]]

\* a rule without its prerequisites
rule_string_no_prereqs(deps, node) ==
    [target |-> node \o <<"_", "nohup.out">>, prereqs |-> <<>>, node |-> node]

\* a rule: the target, the prerequisites, and the node of the recipe
\* (date; mkdir node/_; cd node/_; nohup ../__/driver)
rule_string(deps, node) ==
    [target |-> nohup_out(node),
     prereqs |-> [i \in 1..Len(deps) |-> nohup_out(deps[i])],
     node |-> node]

Range(s) == {s[i] : i \in 1..Len(s)}

\* the trailing loop with the difference the wrong way round
trivial_nodes_swapped(deps, children) == children \ deps

\* the nodes of makefile's trailing loop
trivial_nodes(deps, children) == deps \ children

\* the first line without the dependencies
all_rule_children_only(deps, children) ==
    {n \o <<"_", "nohup.out">> : n \in children}

\* the first line of the script
all_rule(deps, children) == {nohup_out(n) : n \in deps \cup children}

-----------------------------------------------------------------------------
(* The actions *)

RootArgs == {R, A, B}
ExitCodes == {0, 2}

Fresh ==
    /\ queue = <<>>
    /\ stream = <<>>
    /\ makefile_string = <<>>
    /\ dependency_set = {}
    /\ child_set = {}
    /\ trivial_done = {}
    /\ script = [all |-> {}, rules |-> <<>>]
    /\ pairs = <<>>
    /\ popped = <<>>
    /\ makeExit = 0
    /\ exitCode = 0

InitWith(trees) ==
    /\ fs \in trees
    /\ pc = "idle"
    /\ root = <<>>
    /\ recursive = FALSE
    /\ made = {}
    /\ snap = fs
    /\ Fresh

Init == InitWith(Trees({"none", "in", "out", "outin"}, [n \in Nodes |-> StatusOf(n)]))

\* main, run: parse the arguments, call find_dependencies on the realpath
Start(node, rec) ==
    /\ pc \in {"idle", "exited"}
    /\ isdir(node)
    /\ pc' = "running"
    /\ snap' = fs
    /\ root' = realpath(node)
    /\ recursive' = rec
    /\ queue' = <<[parent |-> <<>>, child |-> realpath(node)]>>
    /\ makefile_string' = <<>>
    /\ dependency_set' = {}
    /\ child_set' = {}
    /\ trivial_done' = {}
    /\ script' = [all |-> {}, rules |-> <<>>]
    /\ pairs' = <<>>
    /\ popped' = <<>>
    /\ makeExit' = 0
    /\ exitCode' = 0
    /\ UNCHANGED <<stream, fs, made>>

\* one iteration of find_dependencies' loop, with the body of makefile's
\* loop run at the yield
Visit ==
    /\ pc = "running"
    /\ queue # <<>>
    /\ \E parent \in {Head(queue).parent}, child \in {Head(queue).child} :
         \E l \in dependency_links(child), ch \in Orders(subdirs(child)) :
            \E deps \in {dependencies(parent, l, root)},
               yielded \in {is_yielded(child, root)} :
               /\ popped' = Append(popped, child)
               /\ IF yielded
                  THEN /\ makefile_string' =
                            Append(makefile_string, rule_string(deps, child))
                       /\ dependency_set' = dependency_set \cup Range(deps)
                       /\ child_set' = child_set \cup {child}
                       /\ pairs' = Append(pairs, [deps |-> deps, child |-> child,
                                                  parent |-> parent])
                  ELSE UNCHANGED <<makefile_string, dependency_set, child_set, pairs>>
               /\ queue' = Tail(queue) \o
                     (IF recursive THEN queue_extension(child, ch, l) ELSE <<>>)
    /\ UNCHANGED <<stream, fs, pc, root, recursive, trivial_done, script, made, snap,
                   makeExit, exitCode>>

\* one iteration of makefile's first loop over a list of pairs
Consume ==
    /\ pc = "running"
    /\ stream # <<>>
    /\ makefile_string' =
           Append(makefile_string, rule_string(Head(stream).deps, Head(stream).child))
    /\ dependency_set' = dependency_set \cup Range(Head(stream).deps)
    /\ child_set' = child_set \cup {Head(stream).child}
    /\ pairs' = Append(pairs, Head(stream))
    /\ stream' = Tail(stream)
    /\ UNCHANGED <<fs, pc, root, recursive, queue, trivial_done, script, popped,
                   made, snap, makeExit, exitCode>>

\* one iteration of makefile's trailing loop
Trivial(node) ==
    /\ pc = "running"
    /\ queue = <<>>
    /\ stream = <<>>
    /\ node \in trivial_nodes(dependency_set, child_set) \ trivial_done
    /\ makefile_string' = Append(makefile_string, rule_string(<<>>, node))
    /\ trivial_done' = trivial_done \cup {node}
    /\ UNCHANGED <<stream, fs, pc, root, recursive, queue, dependency_set, child_set,
                   script, pairs, popped, made, snap, makeExit, exitCode>>

\* the end of makefile, and run_make up to p.stdin.close()
Finish ==
    /\ pc = "running"
    /\ queue = <<>>
    /\ stream = <<>>
    /\ trivial_nodes(dependency_set, child_set) \subseteq trivial_done
    /\ script' = [all |-> all_rule(dependency_set, child_set),
                  rules |-> makefile_string]
    /\ pc' = "make"
    /\ UNCHANGED <<stream, fs, root, recursive, queue, makefile_string, dependency_set,
                   child_set, trivial_done, pairs, popped, made, snap, makeExit,
                   exitCode>>

\* make runs the recipe of a rule whose results directory can be made
ExecRule(i) ==
    /\ pc = "make"
    /\ Cardinality(made) < MaxExec
    /\ i \in 1..Len(script.rules)
    /\ LET node == script.rules[i].node
       IN /\ ~exists(node \o <<"_">>)
          /\ fs' = fs \cup {Dir(realpath(node) \o <<"_">>),
                            File(realpath(node) \o <<"_", "nohup.out">>)}
          /\ made' = made \cup {realpath(node)}
    /\ UNCHANGED <<stream, pc, root, recursive, queue, makefile_string, dependency_set,
                   child_set, trivial_done, script, pairs, popped, snap,
                   makeExit, exitCode>>

\* the status with which rf ends after p.wait() returned code
exit_status(code) == 0

\* p.wait() returns, run_make, run and main return
Wait(code) ==
    /\ pc = "make"
    /\ makeExit' = code
    /\ exitCode' = exit_status(code)
    /\ pc' = "exited"
    /\ UNCHANGED <<stream, fs, root, recursive, queue, makefile_string, dependency_set,
                   child_set, trivial_done, script, pairs, popped, made, snap>>

\* one run of discovery and synthesis, up to the hand-off to make
Next ==
    \/ \E node \in RootArgs, rec \in BOOLEAN : Start(node, rec)
    \/ Visit
    \/ \E node \in dependency_set \cup child_set : Trivial(node)
    \/ Finish

Spec == Init /\ [][Next]_vars

\* makefile alone, on a list of pairs of any shape
SeqsUpTo(S, n) == UNION {[1..k -> S] : k \in 0..n}

PairLists ==
    SeqsUpTo([deps : SeqsUpTo({R, A, B}, MaxDeps), child : {R, A, B},
              parent : {<<>>}], MaxPairs)

InitMk ==
    /\ fs = {Dir(<<>>)}
    /\ snap = fs
    /\ pc = "running"
    /\ root = R
    /\ recursive = FALSE
    /\ made = {}
    /\ queue = <<>>
    /\ stream \in PairLists
    /\ makefile_string = <<>>
    /\ dependency_set = {}
    /\ child_set = {}
    /\ trivial_done = {}
    /\ script = [all |-> {}, rules |-> <<>>]
    /\ pairs = <<>>
    /\ popped = <<>>
    /\ makeExit = 0
    /\ exitCode = 0

NextMk ==
    \/ Consume
    \/ \E node \in dependency_set \cup child_set : Trivial(node)
    \/ Finish

MkSpec == InitMk /\ [][NextMk]_vars

\* runs of rf, each followed by what make does with the script
InitRerun == InitWith(Trees({"none", "in"}, [n \in Nodes |-> RerunStatusOf(n)]))

NextRerun ==
    \/ \E node \in RootArgs, rec \in BOOLEAN : Start(node, rec)
    \/ Visit
    \/ \E node \in dependency_set \cup child_set : Trivial(node)
    \/ Finish
    \/ \E i \in 1..Len(script.rules) : ExecRule(i)
    \/ \E code \in ExitCodes : Wait(code)

RerunSpec == InitRerun /\ [][NextRerun]_vars

\* Discovery and synthesis alone, over trees in which a subdirectory entry
\* is a symbolic link to an ancestor.  rf is one thread: an iteration that
\* can run does run.
InitLoop == InitWith(Trees({"loop"}, [n \in Nodes |-> LoopStatusOf(n)]))

LiveSpec == InitLoop /\ [][Next]_vars /\ WF_vars(Next)

-----------------------------------------------------------------------------
(* What the properties are stated in: the tree as it is on disk *)

EntryIn(T, p, kind) == \E e \in T : e.path = p /\ e.kind = kind

\* the four-part eligibility of the node with canonical path n in tree T
EligibleIn(T, n) ==
    /\ EntryIn(T, n, "dir")
    /\ EntryIn(T, n \o <<"__">>, "dir")
    /\ ~\E e \in T : e.path = n \o <<"_">>
    /\ EntryIn(T, n \o <<"__", "driver">>, "xfile")

\* canonical path p is the canonical path b or lies under it
Inside(p, b) == Len(b) <= Len(p) /\ SubSeq(p, 1, Len(b)) = b

\* the directories the symbolic links in n/__/dep point at
LinkTargetsIn(T, n) ==
    {e.target : e \in {x \in T : /\ x.kind = "link"
                                 /\ Len(x.path) = Len(n) + 3
                                 /\ SubSeq(x.path, 1, Len(n) + 2) = n \o <<"__", "dep">>
                                 /\ EntryIn(T, x.target, "dir")}}

\* the physical directories under b reached without a name '_' or '__'
PhysDirs(T, b) ==
    {e.path : e \in {x \in T : /\ x.kind = "dir"
                               /\ Inside(x.path, b)
                               /\ \A k \in (Len(b) + 1)..Len(x.path) :
                                      x.path[k] \notin {"_", "__"}}}

Marker(n) == n \o <<"_", "nohup.out">>
Targets(rules) == {rules[i].target : i \in 1..Len(rules)}
PairDeps == UNION {Range(pairs[i].deps) : i \in 1..Len(pairs)}
PairChildren == {pairs[i].child : i \in 1..Len(pairs)}
Built == pc \in {"make", "exited"}

\* what the pair of node child, popped with parent, has to hold
ExpectedDeps(parent, child) ==
    {x \in Range(parent) \cup LinkTargetsIn(snap, realpath(child)) :
        /\ EligibleIn(snap, realpath(x))
        /\ Inside(realpath(x), realpath(root))}

-----------------------------------------------------------------------------
(* The properties *)

\* C1: every rule target, ordinary or trivial, is the marker of a node that
\* at discovery time has N/__, has no N/_ and has an executable N/__/driver;
\* so a node whose results directory exists is not a rule target of a
\* later run.
C1_TargetsEligible ==
    \A r \in Range(makefile_string) \cup Range(script.rules) :
        /\ r.target = Marker(r.node)
        /\ EligibleIn(snap, realpath(r.node))

\* a later run over a tree in which make created a results directory
C1_Witness ==
    /\ pc = "make"
    /\ recursive
    /\ Len(script.rules) >= 2
    /\ \E n \in made : EntryIn(snap, n \o <<"_">>, "dir") /\ Inside(n, root)

\* C2: every dependency of a yielded pair has a canonical path that is the
\* root's canonical path or lies under it.
C2_Containment ==
    \A i \in 1..Len(pairs) : \A d \in Range(pairs[i].deps) :
        Inside(realpath(d), realpath(root))

\* a pair whose eligible traversal parent and eligible link target both
\* lie outside the root's subtree
C2_Witness ==
    \E i \in 1..Len(pairs) :
        /\ pairs[i].child = <<"r", "s", "t">>
        /\ pairs[i].parent = <<(<<"r", "s">>)>>
        /\ realpath(<<"r", "s">>) = O
        /\ EligibleIn(snap, O)
        /\ O \in LinkTargetsIn(snap, A)
        /\ pairs[i].deps = <<>>

\* C3: every prerequisite of the script, those of 'all' included, is the
\* target of some rule, and a path seen only as a dependency has exactly one
\* rule, which has no prerequisites.
C3_Completeness ==
    Built =>
        /\ script.all \subseteq Targets(script.rules)
        /\ \A i \in 1..Len(script.rules) :
               Range(script.rules[i].prereqs) \subseteq Targets(script.rules)
        /\ \A n \in PairDeps \ PairChildren :
               /\ Cardinality({i \in 1..Len(script.rules) :
                                  script.rules[i].target = Marker(n)}) = 1
               /\ \A i \in 1..Len(script.rules) :
                      script.rules[i].target = Marker(n)
                          => script.rules[i].prereqs = <<>>

\* a script with a rule that has a prerequisite seen only as a dependency
C3_Witness ==
    /\ pc = "make"
    /\ PairDeps \ PairChildren # {}
    /\ \E i \in 1..Len(script.rules) : script.rules[i].prereqs # <<>>

\* C4: the exit code of rf equals the exit code of make.
C4_ExitStatusPropagated ==
    pc = "exited" => exitCode = makeExit

EdgesOf(S) ==
    {T \in (IF Len(S) > 1 THEN {SubSeq(S, 1, Len(S) - 1)} ELSE {})
           \cup LinkTargetsIn(snap, S) :
        /\ EligibleIn(snap, T)
        /\ Inside(T, realpath(root))}

C8_Umbrella ==
    Built =>
        /\ script.all = {Marker(n) : n \in PairDeps \cup PairChildren}
        /\ script.all = Targets(script.rules)
        /\ pairs = <<>> => script = [all |-> {}, rules |-> <<>>]
        /\ (Len(pairs) = 1 /\ pairs[1].deps = <<>>) =>
               /\ Len(script.rules) = 1
               /\ script.rules[1].target = Marker(pairs[1].child)
               /\ script.rules[1].prereqs = <<>>
               /\ script.all = {Marker(pairs[1].child)}

\* scenario B: the eligible root alone
C8_Witness ==
    /\ pc = "make"
    /\ Len(pairs) = 1
    /\ pairs[1] = [deps |-> <<>>, child |-> root, parent |-> <<>>]
    /\ script.all = {Marker(root)}

\* C9: no two rules of the script have targets that denote the same node.
C9_OneRulePerNode ==
    Built =>
        \A i, j \in 1..Len(script.rules) :
            realpath(script.rules[i].node) = realpath(script.rules[j].node)
                => i = j

\* C10: no path popped ends in '_' or '__'; a recursive run yields every
\* eligible directory under the root reached without such a name; a run
\* that is not recursive pops the root alone and yields at most one pair.
C10_Traversal ==
    /\ \A i \in 1..Len(popped) : popped[i][Len(popped[i])] \notin {"_", "__"}
    /\ (Built /\ recursive) =>
           \A d \in PhysDirs(snap, root) :
               EligibleIn(snap, d) => d \in PairChildren
    /\ ~recursive =>
           /\ Len(popped) <= 1
           /\ Range(popped) \subseteq {root}
           /\ Len(pairs) <= 1

\* a recursive run from an ineligible root through the ineligible A, which
\* has a declaration and a results directory, to the eligible C
C10_Witness ==
    /\ pc = "make"
    /\ recursive
    /\ root = R
    /\ ~EligibleIn(snap, R)
    /\ EntryIn(snap, A \o <<"_">>, "dir")
    /\ EntryIn(snap, A \o <<"__", "dep">>, "dir")
    /\ C \in PairChildren

\* every entry added to the queue is a listed subdirectory of the path
\* just popped
QueueFedByListing ==
    pc = "running" /\ queue # <<>> =>
        \A k \in Len(queue)..Len(queue') :
            /\ queue'[k].parent = <<Head(queue).child>>
            /\ Len(queue'[k].child) = Len(Head(queue).child) + 1
            /\ SubSeq(queue'[k].child, 1, Len(Head(queue).child)) = Head(queue).child
            /\ EntryIn(fs, realpath(queue'[k].child), "dir")
            /\ \E e \in fs : e.path = Append(realpath(Head(queue).child),
                                             queue'[k].child[Len(queue'[k].child)])

\* C5: every discovery empties its queue, also in a tree whose dependency
\* links form cycles and whose subdirectory entries are links to ancestors,
\* and the queue is fed by directory listings alone.
C5_DiscoveryTerminates ==
    /\ (pc = "running") ~> (queue = <<>>)
    /\ [][QueueFedByListing]_vars

\* a discovery that ended after it went round a link to an ancestor, in a
\* tree with a dependency link that points at an ancestor
C5_Witness ==
    /\ pc = "running"
    /\ queue = <<>>
    /\ \E i \in 1..Len(popped) : Len(popped[i]) > 5
    /\ R \in LinkTargetsIn(snap, A)

====
